---- MODULE Spec2Model ----
(***************************************************************************)
(* Model of ExcelToSQL/core/excel_formula_parser.py: the tokenizer, the    *)
(* recursive-descent parser, the AST-to-SQL converter and the driver       *)
(* convert_excel_formula_to_sql.                                           *)
(*                                                                         *)
(* Python strings are TLA+ strings; positions are zero-based as in the     *)
(* source.  Floats are modelled by the exact decimal they print as (a      *)
(* mantissa and a number of decimal places).  The interpreter's stack is   *)
(* taken to be deep enough for the formulas explored.                      *)
(***************************************************************************)
EXTENDS Integers, Sequences, FiniteSets, TLC

VARIABLES formula,          \* the driver's arguments
          column_mappings,
          sheet_mappings,
          current_sheet,
          pc,               \* the statement of the driver that runs next
          tokenizer_pos,    \* ExcelTokenizer.pos
          tokens,           \* the list tokenize builds and returns
          parsed,           \* what ExcelParser.parse returned
          sql,              \* what the driver returned (None until it has)
          raised            \* the message of the exception caught ("" if none)

arguments == <<formula, column_mappings, sheet_mappings, current_sheet>>

vars == <<formula, column_mappings, sheet_mappings, current_sheet,
          pc, tokenizer_pos, tokens, parsed, sql, raised>>

(***************************************************************************)
(* Python values                                                           *)
(***************************************************************************)
None == [t |-> "NoneType"]

Str(s) == [t |-> "str", v |-> s]

Dict(d) == [t |-> "dict", v |-> d]

EmptyDict == Dict([k \in {} |-> ""])

IsNone(x) == x.t = "NoneType"

\* dict.get(key, default)
DictGet(d, key, default) == IF key \in DOMAIN d.v THEN d.v[key] ELSE default

Float(m, e) == [t |-> "float", mant |-> m, exp |-> e]

IntVal(n) == [t |-> "int", v |-> n]

\* isinstance(x, cls), for the classes of AST nodes
IsInstance(x, cls) == x.node = cls

(***************************************************************************)
(* Characters and strings                                                  *)
(***************************************************************************)
UpperSeq == <<"A","B","C","D","E","F","G","H","I","J","K","L","M",
              "N","O","P","Q","R","S","T","U","V","W","X","Y","Z">>

LowerSeq == <<"a","b","c","d","e","f","g","h","i","j","k","l","m",
              "n","o","p","q","r","s","t","u","v","w","x","y","z">>

DigitSeq == <<"0","1","2","3","4","5","6","7","8","9">>

UpperLetters == {UpperSeq[i] : i \in DOMAIN UpperSeq}

LowerLetters == {LowerSeq[i] : i \in DOMAIN LowerSeq}

Digits == {DigitSeq[i] : i \in DOMAIN DigitSeq}

Letters == UpperLetters \cup LowerLetters

\* [A-Za-z_]
IsIdentStart(c) == c \in Letters \cup {"_"}

\* str.isspace on one character
IsSpace(c) == c \in {" ", "\t", "\n", "\r"}

\* s[i], zero-based; "" past the end (the callers test the length first)
At(s, i) == IF 0 <= i /\ i < Len(s) THEN SubSeq(s, i + 1, i + 1) ELSE ""

\* s[i:j], zero-based, j exclusive, clipped as a Python slice is
Slice(s, i, j) == SubSeq(s, i + 1, IF j > Len(s) THEN Len(s) ELSE j)

UpperCh(c) ==
    IF c \in LowerLetters
    THEN UpperSeq[CHOOSE i \in DOMAIN LowerSeq : LowerSeq[i] = c]
    ELSE c

LowerCh(c) ==
    IF c \in UpperLetters
    THEN LowerSeq[CHOOSE i \in DOMAIN UpperSeq : UpperSeq[i] = c]
    ELSE c

RECURSIVE MapChars(_, _, _)
MapChars(s, i, up) ==
    IF i >= Len(s) THEN ""
    ELSE (IF up THEN UpperCh(At(s, i)) ELSE LowerCh(At(s, i))) \o MapChars(s, i + 1, up)

\* str.upper, str.lower
Upper(s) == MapChars(s, 0, TRUE)

Lower(s) == MapChars(s, 0, FALSE)

DigitVal(c) == (CHOOSE i \in DOMAIN DigitSeq : DigitSeq[i] = c) - 1

\* the end of the longest run of characters satisfying a class, from i
RECURSIVE RunEnd(_, _, _)
RunEnd(s, i, cls) ==
    IF i < Len(s) /\ At(s, i) \in cls THEN RunEnd(s, i + 1, cls) ELSE i

WordChars == Letters \cup Digits \cup {"_"}

\* str.lstrip('=')
LStripEq(s) == Slice(s, RunEnd(s, 0, {"="}), Len(s))

RECURSIVE RunStart(_, _, _)
RunStart(s, j, cls) ==
    IF j > 0 /\ At(s, j - 1) \in cls THEN RunStart(s, j - 1, cls) ELSE j

\* str.strip(chars)
StripChars(s, cls) ==
    LET a == RunEnd(s, 0, cls)
        b == RunStart(s, Len(s), cls)
    IN  IF a >= b THEN "" ELSE Slice(s, a, b)

SpaceChars == {" ", "\t", "\n", "\r"}

\* str.strip()
Strip(s) == StripChars(s, SpaceChars)

\* whether sub occurs in s at zero-based offset i
OccursAt(s, sub, i) == i >= 0 /\ i + Len(sub) <= Len(s) /\ Slice(s, i, i + Len(sub)) = sub

Contains(s, sub) == \E i \in 0..Len(s) : OccursAt(s, sub, i)

StartsWith(s, sub) == OccursAt(s, sub, 0)

EndsWith(s, sub) == OccursAt(s, sub, Len(s) - Len(sub))

(***************************************************************************)
(* Tokens                                                                  *)
(***************************************************************************)
Tok(type, value, position) ==
    [t |-> "Token", type |-> type, value |-> value, position |-> position]

\* a matcher's outcome: the token (or None) and where it leaves self.pos
Matched(tok, p) == [token |-> tok, pos |-> p]

NoMatch(p) == [token |-> None, pos |-> p]

IsTok(r) == r.token.t = "Token"

(***************************************************************************)
(* ExcelTokenizer                                                          *)
(***************************************************************************)
\* ExcelTokenizer.__init__: the normalized formula
Normalize(s) == Strip(LStripEq(s))

RECURSIVE StringLoop(_, _, _, _)
StringLoop(f, p, value, start) ==
    IF p < Len(f)
    THEN IF At(f, p) = "\""
         THEN IF p + 1 < Len(f) /\ At(f, p + 1) = "\""
              THEN StringLoop(f, p + 2, value \o "\"", start)
              ELSE Matched(Tok("STRING", value, start), p + 1)
         ELSE StringLoop(f, p + 1, value \o At(f, p), start)
    ELSE Matched(Tok("STRING", value, start), p)

MatchString(f, pos) ==
    IF At(f, pos) # "\"" THEN NoMatch(pos)
    ELSE StringLoop(f, pos + 1, "", pos)

\* re.match(r'[A-Za-z_]\w*', s[i:]): the end of the match, or -1
IdentEnd(f, i) ==
    IF i < Len(f) /\ IsIdentStart(At(f, i)) THEN RunEnd(f, i + 1, WordChars) ELSE -1

RECURSIVE BracketLoop(_, _, _)
BracketLoop(f, p, bracket_count) ==
    IF p < Len(f)
    THEN IF At(f, p) = "["
         THEN BracketLoop(f, p + 1, bracket_count + 1)
         ELSE IF At(f, p) = "]"
              THEN IF bracket_count - 1 = 0
                   THEN p + 1
                   ELSE BracketLoop(f, p + 1, bracket_count - 1)
              ELSE BracketLoop(f, p + 1, bracket_count)
    ELSE p

MatchTableReference(f, pos) ==
    LET e == IdentEnd(f, pos) IN
    IF e < 0 \/ At(f, e) # "[" THEN NoMatch(pos)
    ELSE LET start == pos
             table_name == Slice(f, pos, e)
             p == pos + Len(table_name)
         IN  IF p >= Len(f) \/ At(f, p) # "["
             THEN NoMatch(start)
             ELSE LET q == BracketLoop(f, p, 0)
                  IN  Matched(Tok("TABLE_REF",
                                  [table |-> table_name,
                                   column |-> Slice(f, p, q),
                                   full |-> Slice(f, start, q)],
                                  start), q)

\* the bare form, tried at p (where the quoted form left self.pos)
SheetBare(f, p, start) ==
    LET e == IdentEnd(f, p) IN
    IF e >= 0 /\ At(f, e) = "!"
    THEN Matched(Tok("SHEET_REF", Slice(f, p, e), start), e + 1)
    ELSE NoMatch(start)

\* _match_sheet_reference without its last statement, self.pos = start
MatchSheetReferenceNoReset(f, pos) ==
    LET start == pos IN
    IF At(f, pos) = "'"
    THEN LET q == RunEnd(f, pos + 1, {At(f, i) : i \in 0..(Len(f) - 1)} \ {"'"})
             sheet_name == Slice(f, pos + 1, q)
             p == IF q < Len(f) /\ At(f, q) = "'" THEN q + 1 ELSE q
             r == SheetBare(f, p, start)
         IN  IF p > q /\ p < Len(f) /\ At(f, p) = "!"
             THEN Matched(Tok("SHEET_REF", sheet_name, start), p + 1)
             ELSE IF IsTok(r) THEN r ELSE NoMatch(p)
    ELSE SheetBare(f, pos, start)

MatchSheetReference(f, pos) ==
    LET start == pos IN
    IF At(f, pos) = "'"
    THEN LET q == RunEnd(f, pos + 1, {At(f, i) : i \in 0..(Len(f) - 1)} \ {"'"})
             sheet_name == Slice(f, pos + 1, q)
         IN  IF q < Len(f) /\ At(f, q) = "'"
             THEN IF q + 1 < Len(f) /\ At(f, q + 1) = "!"
                  THEN Matched(Tok("SHEET_REF", sheet_name, start), q + 2)
                  ELSE SheetBare(f, q + 1, start)
             ELSE SheetBare(f, q, start)
    ELSE SheetBare(f, pos, start)

\* re.match(r'\$?[A-Z]+\$?\d+', s[i:]): the end of the match, or -1
CellEnd(f, i) ==
    LET a == IF At(f, i) = "$" THEN i + 1 ELSE i
        b == RunEnd(f, a, UpperLetters)
        c == IF At(f, b) = "$" THEN b + 1 ELSE b
        d == RunEnd(f, c, Digits)
    IN  IF b > a /\ d > c THEN d ELSE -1

\* re.match(r'\$?[A-Z]+\$?\d+:\$?[A-Z]+\$?\d+', s[i:]): the end, or -1
RangeEnd(f, i) ==
    LET e1 == CellEnd(f, i) IN
    IF e1 >= 0 /\ At(f, e1) = ":" THEN CellEnd(f, e1 + 1) ELSE -1

MatchRange(f, pos) ==
    LET e == RangeEnd(f, pos) IN
    IF e >= 0 THEN Matched(Tok("RANGE_REF", Slice(f, pos, e), pos), e)
    ELSE NoMatch(pos)

MatchCellReference(f, pos) ==
    LET e == CellEnd(f, pos) IN
    IF e >= 0 THEN Matched(Tok("CELL_REF", Slice(f, pos, e), pos), e)
    ELSE NoMatch(pos)

\* re.match(r'\d+\.?\d*|\.\d+', s[i:]): the end of the match, or -1
NumberEnd(f, i) ==
    IF At(f, i) \in Digits
    THEN LET a == RunEnd(f, i, Digits)
             b == IF At(f, a) = "." THEN a + 1 ELSE a
         IN  RunEnd(f, b, Digits)
    ELSE IF At(f, i) = "." /\ At(f, i + 1) \in Digits
         THEN RunEnd(f, i + 1, Digits)
         ELSE -1

RECURSIVE DigitsVal(_, _, _)
DigitsVal(s, i, acc) ==
    IF i >= Len(s) THEN acc
    ELSE IF At(s, i) = "." THEN DigitsVal(s, i + 1, acc)
         ELSE DigitsVal(s, i + 1, acc * 10 + DigitVal(At(s, i)))

RECURSIVE Normalized(_, _)
Normalized(m, e) ==
    IF e > 0 /\ m % 10 = 0 THEN Normalized(m \div 10, e - 1) ELSE Float(m, e)

\* float(lexeme), and float(lexeme) / 100 when percent
ToFloat(lexeme, percent) ==
    LET dot == RunEnd(lexeme, 0, Digits)
        places == IF dot < Len(lexeme) THEN Len(lexeme) - dot - 1 ELSE 0
    IN  Normalized(DigitsVal(lexeme, 0, 0), places + (IF percent THEN 2 ELSE 0))

MatchNumber(f, pos) ==
    LET e == NumberEnd(f, pos) IN
    IF e >= 0
    THEN LET value == Slice(f, pos, e)
         IN  IF e < Len(f) /\ At(f, e) = "%"
             THEN Matched(Tok("NUMBER", ToFloat(value, TRUE), pos), e + 1)
             ELSE Matched(Tok("NUMBER", ToFloat(value, FALSE), pos), e)
    ELSE NoMatch(pos)

FunctionChars == Letters \cup Digits \cup {"_", "."}

\* re.match(r'[A-Z_][A-Z0-9_.]*(?=\()', s[i:], re.IGNORECASE)
MatchFunction(f, pos) ==
    IF IsIdentStart(At(f, pos))
    THEN LET e == RunEnd(f, pos + 1, FunctionChars)
         IN  IF At(f, e) = "("
             THEN LET value == Upper(Slice(f, pos, e))
                  IN  Matched(Tok("FUNCTION", value, pos), pos + Len(value))
             ELSE NoMatch(pos)
    ELSE NoMatch(pos)

ops == <<"<>", "<=", ">=", "<", ">", "=", "+", "-", "*", "/", "^", "&">>

MatchOperator(f, pos) ==
    LET hits == {i \in DOMAIN ops : Slice(f, pos, pos + Len(ops[i])) = ops[i]} IN
    IF hits = {} THEN NoMatch(pos)
    ELSE LET op == ops[CHOOSE i \in hits : \A j \in hits : i <= j]
         IN  Matched(Tok("OPERATOR", op, pos), pos + Len(op))

MatchPunctuation(f, pos) ==
    LET char == At(f, pos) IN
    IF char = "(" THEN Matched(Tok("LPAREN", char, pos), pos + 1)
    ELSE IF char = ")" THEN Matched(Tok("RPAREN", char, pos), pos + 1)
    ELSE IF char = "," THEN Matched(Tok("COMMA", char, pos), pos + 1)
    ELSE NoMatch(pos)

\* the matchers in the order tokenize tries them
MatcherOrder == <<"string", "table_reference", "sheet_reference", "range",
                  "cell_reference", "number", "function", "operator", "punctuation">>

Matcher(name, f, pos) ==
    CASE name = "string" -> MatchString(f, pos)
      [] name = "table_reference" -> MatchTableReference(f, pos)
      [] name = "sheet_reference" -> MatchSheetReference(f, pos)
      [] name = "range" -> MatchRange(f, pos)
      [] name = "cell_reference" -> MatchCellReference(f, pos)
      [] name = "number" -> MatchNumber(f, pos)
      [] name = "function" -> MatchFunction(f, pos)
      [] name = "operator" -> MatchOperator(f, pos)
      [] name = "punctuation" -> MatchPunctuation(f, pos)

\* token = m1() or m2() or ...: each matcher starts where the last left self.pos
RECURSIVE FirstMatch(_, _, _)
FirstMatch(k, f, pos) ==
    IF k > Len(MatcherOrder) THEN NoMatch(pos)
    ELSE LET r == Matcher(MatcherOrder[k], f, pos)
         IN  IF IsTok(r) THEN r ELSE FirstMatch(k + 1, f, r.pos)

\* one pass of the while loop of tokenize, entered with self.pos = pos
Iteration(f, pos, toks) ==
    IF IsSpace(At(f, pos))
    THEN [pos |-> pos + 1, tokens |-> toks]
    ELSE LET r == FirstMatch(1, f, pos)
         IN  IF IsTok(r)
             THEN [pos |-> r.pos, tokens |-> Append(toks, r.token)]
             ELSE [pos |-> r.pos + 1, tokens |-> toks]

\* tokens.append(Token(TokenType.EOF, None, self.pos))
WithEOF(toks, pos) == Append(toks, Tok("EOF", None, pos))

RECURSIVE TokenizeLoop(_, _, _)
TokenizeLoop(f, pos, toks) ==
    IF pos < Len(f)
    THEN LET s == Iteration(f, pos, toks) IN TokenizeLoop(f, s.pos, s.tokens)
    ELSE WithEOF(toks, pos)

\* ExcelTokenizer(formula).tokenize()
Tokenize(s) == TokenizeLoop(Normalize(s), 0, <<>>)

(***************************************************************************)
(* AST nodes                                                               *)
(***************************************************************************)
NumberNode(value) == [node |-> "Number", value |-> value]

StringNode(value) == [node |-> "String", value |-> value]

CellRefNode(cell, sheet) == [node |-> "CellRef", cell |-> cell, sheet |-> sheet]

RangeRefNode(range, sheet) == [node |-> "RangeRef", range |-> range, sheet |-> sheet]

TableRefNode(table, column, full_ref) ==
    [node |-> "TableRef", table |-> table, column |-> column, full_ref |-> full_ref]

FunctionNode(name, args) == [node |-> "Function", name |-> name, args |-> args]

BinaryOpNode(operator, left, right) ==
    [node |-> "BinaryOp", operator |-> operator, left |-> left, right |-> right]

UnaryOpNode(operator, operand) ==
    [node |-> "UnaryOp", operator |-> operator, operand |-> operand]

(***************************************************************************)
(* ExcelParser.  Each parse function yields the node it returns, the value *)
(* of self.pos when it returns, and the calls made so far (for the claims  *)
(* about the position): <<function, self.pos at entry, self.pos at exit>>. *)
(***************************************************************************)
Ret(node, pos, log) == [node |-> node, pos |-> pos, log |-> log]

Call(fn, from, to) == [fn |-> fn, from |-> from, to |-> to, type |-> ""]

\* the fallback of _parse_primary acted on a token of this type
ZeroCall(type, from, to) == [fn |-> "zero", from |-> from, to |-> to, type |-> type]

\* r, the outcome of a call of fn entered at pos, with the call recorded
Logged(fn, pos, r) == [r EXCEPT !.log = Append(@, Call(fn, pos, r.pos))]

\* ExcelParser._current_token
CurrentToken(toks, pos) == IF pos < Len(toks) THEN toks[pos + 1] ELSE toks[Len(toks)]

\* ExcelParser._advance
Advance(pos) == pos + 1

IsOp(tok, values) == tok.type = "OPERATOR" /\ tok.value \in values

\* self._current_token().type
TypeAt(toks, pos) == IF pos < Len(toks) THEN toks[pos + 1].type ELSE toks[Len(toks)].type

\* self._current_token().value
ValueAt(toks, pos) == IF pos < Len(toks) THEN toks[pos + 1].value ELSE toks[Len(toks)].value

\* self._current_token() is an OPERATOR token with one of these values
OpAt(toks, pos, values) ==
    IF pos < Len(toks) THEN IsOp(toks[pos + 1], values) ELSE IsOp(toks[Len(toks)], values)

ComparisonOps == {"=", "<>", "<", ">", "<=", ">="}

\* left = BinaryOpNode(op, left, right), with right parsed after left
Binary(op, l, r) == Ret(BinaryOpNode(op, l.node, r.node), r.pos, l.log \o r.log)

RECURSIVE ParseExpression(_, _)
RECURSIVE ParseComparison(_, _)
RECURSIVE ComparisonLoop(_, _, _)
RECURSIVE ParseConcat(_, _)
RECURSIVE ConcatLoop(_, _, _)
RECURSIVE ParseAddition(_, _)
RECURSIVE AdditionLoop(_, _, _)
RECURSIVE ParseMultiplication(_, _)
RECURSIVE MultiplicationLoop(_, _, _)
RECURSIVE ParsePower(_, _)
RECURSIVE ParseUnary(_, _)
RECURSIVE ParsePrimary(_, _)
RECURSIVE ParseFunction(_, _)
RECURSIVE ArgLoop(_, _)

ParseExpression(toks, pos) == Logged("expression", pos, ParseComparison(toks, pos))

\* the while loop of _parse_comparison and its return: the call was entered
\* at pos, and left = l.node with self.pos = l.pos
ComparisonLoop(toks, pos, l) ==
    IF OpAt(toks, l.pos, ComparisonOps)
    THEN ComparisonLoop(toks, pos, Binary(ValueAt(toks, l.pos), l,
                                     ParseConcat(toks, Advance(l.pos))))
    ELSE Logged("comparison", pos, l)

ParseComparison(toks, pos) == ComparisonLoop(toks, pos, ParseConcat(toks, pos))

ConcatLoop(toks, pos, l) ==
    IF OpAt(toks, l.pos, {"&"})
    THEN ConcatLoop(toks, pos, Binary("&", l, ParseAddition(toks, Advance(l.pos))))
    ELSE Logged("concat", pos, l)

ParseConcat(toks, pos) == ConcatLoop(toks, pos, ParseAddition(toks, pos))

AdditionLoop(toks, pos, l) ==
    IF OpAt(toks, l.pos, {"+", "-"})
    THEN AdditionLoop(toks, pos, Binary(ValueAt(toks, l.pos), l,
                                   ParseMultiplication(toks, Advance(l.pos))))
    ELSE Logged("addition", pos, l)

ParseAddition(toks, pos) == AdditionLoop(toks, pos, ParseMultiplication(toks, pos))

MultiplicationLoop(toks, pos, l) ==
    IF OpAt(toks, l.pos, {"*", "/"})
    THEN MultiplicationLoop(toks, pos, Binary(ValueAt(toks, l.pos), l,
                                         ParsePower(toks, Advance(l.pos))))
    ELSE Logged("multiplication", pos, l)

ParseMultiplication(toks, pos) == MultiplicationLoop(toks, pos, ParsePower(toks, pos))

\* _parse_power after left = self._parse_unary()
PowerRest(toks, pos, l) ==
    IF OpAt(toks, l.pos, {"^"})
    THEN Logged("power", pos, Binary("^", l, ParsePower(toks, Advance(l.pos))))
    ELSE Logged("power", pos, l)

\* _parse_power written as the other binary levels are: a while loop, which
\* groups to the left
RECURSIVE PowerLoopLeft(_, _, _)
PowerLoopLeft(toks, pos, l) ==
    IF OpAt(toks, l.pos, {"^"})
    THEN PowerLoopLeft(toks, pos, Binary("^", l, ParseUnary(toks, Advance(l.pos))))
    ELSE Logged("power", pos, l)

ParsePowerLeft(toks, pos) == PowerLoopLeft(toks, pos, ParseUnary(toks, pos))

ParsePower(toks, pos) == PowerRest(toks, pos, ParseUnary(toks, pos))

Unary(op, r) == Ret(UnaryOpNode(op, r.node), r.pos, r.log)

ParseUnary(toks, pos) ==
    IF OpAt(toks, pos, {"-", "+"})
    THEN Logged("unary", pos,
                Unary(ValueAt(toks, pos), ParseUnary(toks, Advance(pos))))
    ELSE Logged("unary", pos, ParsePrimary(toks, pos))

\* the end of the LPAREN branch: the closing parenthesis is consumed if there
CloseParen(toks, r) ==
    IF TypeAt(toks, r.pos) = "RPAREN" THEN Ret(r.node, Advance(r.pos), r.log)
    ELSE r

\* the rest of _parse_primary with a fallback that returns NumberNode(0)
\* without self._advance()
PrimaryRestNoAdvance(toks, p, token, sheet) ==
    CASE token.type = "CELL_REF" ->
           Ret(CellRefNode(token.value, sheet), Advance(p), <<>>)
      [] token.type = "RANGE_REF" ->
           Ret(RangeRefNode(token.value, sheet), Advance(p), <<>>)
      [] token.type = "TABLE_REF" ->
           Ret(TableRefNode(token.value.table, token.value.column, token.value.full),
               Advance(p), <<>>)
      [] token.type = "FUNCTION" -> ParseFunction(toks, p)
      [] token.type = "LPAREN" -> CloseParen(toks, ParseExpression(toks, Advance(p)))
      [] OTHER ->
           Ret(NumberNode(IntVal(0)), p, <<ZeroCall(token.type, p, p)>>)

\* _parse_primary after the NUMBER and STRING tests and the SHEET_REF step:
\* token is the current token, at p
PrimaryRest(toks, p, token, sheet) ==
    CASE token.type = "CELL_REF" ->
           Ret(CellRefNode(token.value, sheet), Advance(p), <<>>)
      [] token.type = "RANGE_REF" ->
           Ret(RangeRefNode(token.value, sheet), Advance(p), <<>>)
      [] token.type = "TABLE_REF" ->
           Ret(TableRefNode(token.value.table, token.value.column, token.value.full),
               Advance(p), <<>>)
      [] token.type = "FUNCTION" -> ParseFunction(toks, p)
      [] token.type = "LPAREN" -> CloseParen(toks, ParseExpression(toks, Advance(p)))
      [] OTHER ->
           Ret(NumberNode(IntVal(0)), Advance(p), <<ZeroCall(token.type, p, Advance(p))>>)

PrimaryBody(toks, pos) ==
    CASE TypeAt(toks, pos) = "NUMBER" ->
           Ret(NumberNode(ValueAt(toks, pos)), Advance(pos), <<>>)
      [] TypeAt(toks, pos) = "STRING" ->
           Ret(StringNode(ValueAt(toks, pos)), Advance(pos), <<>>)
      [] TypeAt(toks, pos) = "SHEET_REF" ->
           PrimaryRest(toks, Advance(pos), CurrentToken(toks, Advance(pos)),
                       Str(ValueAt(toks, pos)))
      [] OTHER -> PrimaryRest(toks, pos, CurrentToken(toks, pos), None)

ParsePrimary(toks, pos) == Logged("primary", pos, PrimaryBody(toks, pos))

\* one pass of the while loop of _parse_function after args.append(r.node).
\* A pass that leaves self.pos where it was would repeat for ever: the model
\* records it ("stuck") and stops.
ArgStep(toks, a, r) ==
    IF TypeAt(toks, r.pos) = "COMMA"
    THEN ArgLoop(toks, Ret(Append(a.node, r.node), Advance(r.pos),
                           Append(a.log \o r.log, Call("argument", a.pos, Advance(r.pos)))))
    ELSE IF TypeAt(toks, r.pos) = "RPAREN"
    THEN Ret(Append(a.node, r.node), r.pos,
             Append(a.log \o r.log, Call("argument", a.pos, r.pos)))
    ELSE IF r.pos = a.pos
    THEN Ret(Append(a.node, r.node), r.pos,
             Append(a.log \o r.log, Call("stuck", a.pos, r.pos)))
    ELSE ArgLoop(toks, Ret(Append(a.node, r.node), r.pos,
                           Append(a.log \o r.log, Call("argument", a.pos, r.pos))))

\* the while loop of _parse_function: a.node is args, a.pos is self.pos
ArgLoop(toks, a) ==
    IF TypeAt(toks, a.pos) \notin {"RPAREN", "EOF"}
    THEN ArgStep(toks, a, ParseExpression(toks, a.pos))
    ELSE a

\* the end of _parse_function: the closing parenthesis is consumed if there
CloseCall(toks, func_name, a) ==
    Ret(FunctionNode(func_name, a.node),
        IF TypeAt(toks, a.pos) = "RPAREN" THEN Advance(a.pos) ELSE a.pos,
        a.log)

ParseFunction(toks, pos) ==
    IF TypeAt(toks, Advance(pos)) # "LPAREN"
    THEN Logged("function", pos,
                Ret(FunctionNode(ValueAt(toks, pos), <<>>), Advance(pos), <<>>))
    ELSE Logged("function", pos,
                CloseCall(toks, ValueAt(toks, pos),
                          ArgLoop(toks, Ret(<<>>, Advance(Advance(pos)), <<>>))))

\* parse written to use up the tokens: while a token other than EOF is left
\* it parses a further expression, and returns the last one
RECURSIVE ParseRestart(_, _)
ParseRestart(toks, pos) ==
    LET r == ParseExpression(toks, pos) IN
    IF r.pos < Len(toks) - 1 /\ r.pos > pos THEN ParseRestart(toks, r.pos) ELSE r

ParseToEnd(toks) == ParseRestart(toks, 0)

\* ExcelParser(tokens).parse()
Parse(toks) == ParseExpression(toks, 0)

(***************************************************************************)
(* ExcelToSQLConverter.  A conversion yields the string it returns, or the *)
(* message of the exception it raises.                                     *)
(***************************************************************************)
Ok(s) == [exc |-> "", s |-> s]

Raise(msg) == [exc |-> msg, s |-> ""]

Raised(r) == r.exc # ""

\* None.get: the attribute lookup on a mapping that is None
NoGet == "'NoneType' object has no attribute 'get'"

\* None.lstrip
NoLStrip == "'NoneType' object has no attribute 'lstrip'"

RECURSIVE NatStr(_)
NatStr(n) == IF n < 10 THEN DigitSeq[n + 1] ELSE NatStr(n \div 10) \o DigitSeq[(n % 10) + 1]

RECURSIVE Zeros(_)
Zeros(n) == IF n <= 0 THEN "" ELSE "0" \o Zeros(n - 1)

\* repr of a float whose value is mant / 10^exp (fixed notation from 1e-4 up,
\* exponent notation below)
FloatStr(x) ==
    LET d == NatStr(x.mant)
        n == Len(d)
        k == n - x.exp - 1
    IN  IF x.mant = 0 THEN "0.0"
        ELSE IF x.exp = 0 THEN d \o ".0"
        ELSE IF k >= 0 THEN Slice(d, 0, n - x.exp) \o "." \o Slice(d, n - x.exp, n)
        ELSE IF k >= -4 THEN "0." \o Zeros(x.exp - n) \o d
        ELSE Slice(d, 0, 1) \o (IF n > 1 THEN "." \o Slice(d, 1, n) ELSE "")
             \o "e-" \o (IF -k < 10 THEN "0" ELSE "") \o NatStr(-k)

\* str(node.value)
PyStr(x) == IF x.t = "int" THEN NatStr(x.v) ELSE FloatStr(x)

\* s with every character of cls replaced by rep
RECURSIVE SubChars(_, _, _, _)
SubChars(s, i, cls, rep) ==
    IF i >= Len(s) THEN ""
    ELSE (IF At(s, i) \in cls THEN rep ELSE At(s, i)) \o SubChars(s, i + 1, cls, rep)

\* s with every character outside cls replaced by rep
RECURSIVE SubOthers(_, _, _, _)
SubOthers(s, i, cls, rep) ==
    IF i >= Len(s) THEN ""
    ELSE (IF At(s, i) \in cls THEN At(s, i) ELSE rep) \o SubOthers(s, i + 1, cls, rep)

RECURSIVE Join(_, _, _)
Join(strs, sep, i) ==
    IF i > Len(strs) THEN ""
    ELSE IF i = Len(strs) THEN strs[i]
    ELSE strs[i] \o sep \o Join(strs, sep, i + 1)

\* truthiness of an Optional[str]
Truthy(x) == x.t = "str" /\ x.v # ""

\* _convert_cell_ref with self.column_mappings[col_letter] in place of .get:
\* a KeyError for a column the mapping does not hold
ConvertCellRefStrict(node, cm, sm, cs) ==
    LET col_letter == SubChars(node.cell, 0, Digits \cup {"$"}, "") IN
    IF IsNone(cm) THEN Raise("'NoneType' object is not subscriptable")
    ELSE IF col_letter \notin DOMAIN cm.v THEN Raise("'" \o col_letter \o "'")
    ELSE LET sql_col == cm.v[col_letter] IN
         IF Truthy(node.sheet) /\ node.sheet # cs
         THEN IF IsNone(sm) THEN Raise(NoGet)
              ELSE Ok(DictGet(sm, node.sheet.v, Lower(node.sheet.v)) \o "." \o sql_col)
         ELSE Ok(sql_col)

\* _convert_cell_ref without the comparison with self.current_sheet
ConvertCellRefAlways(node, cm, sm, cs) ==
    LET col_letter == SubChars(node.cell, 0, Digits \cup {"$"}, "") IN
    IF IsNone(cm) THEN Raise(NoGet)
    ELSE LET sql_col == DictGet(cm, col_letter, Lower(col_letter)) IN
         IF Truthy(node.sheet)
         THEN IF IsNone(sm) THEN Raise(NoGet)
              ELSE Ok(DictGet(sm, node.sheet.v, Lower(node.sheet.v)) \o "." \o sql_col)
         ELSE Ok(sql_col)

ConvertCellRef(node, cm, sm, cs) ==
    LET col_letter == SubChars(node.cell, 0, Digits \cup {"$"}, "") IN
    IF IsNone(cm) THEN Raise(NoGet)
    ELSE LET sql_col == DictGet(cm, col_letter, Lower(col_letter)) IN
         IF Truthy(node.sheet) /\ node.sheet # cs
         THEN IF IsNone(sm) THEN Raise(NoGet)
              ELSE Ok(DictGet(sm, node.sheet.v, Lower(node.sheet.v)) \o "." \o sql_col)
         ELSE Ok(sql_col)

ConvertRangeRef(node) == Ok("/* RANGE: " \o node.range \o " */")

\* re.sub(r'[^\w]', '_', col_name).strip('_').lower()
SqlName(col_name) == Lower(StripChars(SubOthers(col_name, 0, WordChars, "_"), {"_"}))

\* the characters [^\]] can match in s
NotClose(s) == {At(s, i) : i \in 0..(Len(s) - 1)} \ {"]"}

ThisRowOpen == "[[#This Row],["

\* re.search(r'\[\[#This Row\],\[([^\]]+)\]\]', column): the starts of a match
ThisRowStarts(column) ==
    {i \in 0..Len(column) :
        /\ OccursAt(column, ThisRowOpen, i)
        /\ LET j == i + Len(ThisRowOpen)
               q == RunEnd(column, j, NotClose(column))
           IN  q > j /\ OccursAt(column, "]]", q)}

\* re.search(r'^\[([^\]]+)\]$', column)
IsSimpleColumn(column) ==
    /\ At(column, 0) = "["
    /\ LET q == RunEnd(column, 1, NotClose(column))
       IN  /\ q > 1
           /\ At(column, q) = "]"
           /\ \/ q + 1 = Len(column)
              \/ q + 2 = Len(column) /\ At(column, q + 1) = "\n"

\* re.match(r'#\w+\s+Row', s[i:]): the end of the match, or -1
RowMarkerEnd(s, i) ==
    IF At(s, i) # "#" THEN -1
    ELSE LET a == RunEnd(s, i + 1, WordChars)
             b == RunEnd(s, a, SpaceChars)
         IN  IF a > i + 1 /\ b > a /\ OccursAt(s, "Row", b) THEN b + 3 ELSE -1

\* re.sub(r'#\w+\s+Row', '', s)
RECURSIVE DropRowMarkers(_, _)
DropRowMarkers(s, i) ==
    IF i >= Len(s) THEN ""
    ELSE LET e == RowMarkerEnd(s, i)
         IN  IF e >= 0 THEN DropRowMarkers(s, e)
             ELSE At(s, i) \o DropRowMarkers(s, i + 1)

ConvertTableRef(node) ==
    LET starts == ThisRowStarts(node.column) IN
    IF starts # {}
    THEN LET i == CHOOSE x \in starts : \A y \in starts : x <= y
             j == i + Len(ThisRowOpen)
         IN  Ok(SqlName(Slice(node.column, j, RunEnd(node.column, j, NotClose(node.column)))))
    ELSE IF IsSimpleColumn(node.column)
    THEN Ok(SqlName(Slice(node.column, 1, RunEnd(node.column, 1, NotClose(node.column)))))
    ELSE LET col_name == StripChars(DropRowMarkers(StripChars(node.column, {"[", "]"}), 0),
                                    {",", "[", "]", " "})
             sql_col == SqlName(col_name)
         IN  Ok(IF sql_col # "" THEN sql_col ELSE Lower(node.table))

op_map(operator) ==
    CASE operator = "^" -> "POWER"
      [] operator = "&" -> "||"
      [] operator = "<>" -> "!="
      [] OTHER -> operator

PassThrough == {"SUM", "AVG", "COUNT", "MIN", "MAX", "ROUND", "ABS", "SQRT"}

LookupFunctions == {"INDEX", "MATCH", "VLOOKUP", "HLOOKUP", "XLOOKUP"}

ConditionalAggregates == {"COUNTIFS", "SUMIFS", "AVERAGEIFS", "COUNTIF", "SUMIF"}

\* the dispatch with the conditional aggregates passed through like SUM
FunctionSqlBare(func_name, args) ==
    LET joined == Join(args, ", ", 1) IN
    IF func_name \in PassThrough \cup ConditionalAggregates
    THEN func_name \o "(" \o joined \o ")"
    ELSE IF func_name \in LookupFunctions
    THEN "/* TODO: " \o func_name \o "(" \o joined \o ") - Convert to JOIN */"
    ELSE "/* " \o func_name \o "(" \o joined \o ") */"

\* the dispatch of _convert_function on the converted arguments
FunctionSql(func_name, args) ==
    LET joined == Join(args, ", ", 1) IN
    IF func_name \in PassThrough THEN func_name \o "(" \o joined \o ")"
    ELSE IF func_name = "IF" /\ Len(args) >= 2
    THEN "CASE WHEN " \o args[1] \o " THEN " \o args[2] \o " ELSE "
         \o (IF Len(args) > 2 THEN args[3] ELSE "NULL") \o " END"
    ELSE IF func_name = "IFERROR" /\ Len(args) >= 2
    THEN "COALESCE(" \o args[1] \o ", " \o args[2] \o ")"
    ELSE IF func_name = "AND" THEN "(" \o Join(args, " AND ", 1) \o ")"
    ELSE IF func_name = "OR" THEN "(" \o Join(args, " OR ", 1) \o ")"
    ELSE IF func_name = "NOT"
    THEN (IF Len(args) > 0 THEN "NOT (" \o args[1] \o ")" ELSE "NOT (TRUE)")
    ELSE IF func_name \in LookupFunctions
    THEN "/* TODO: " \o func_name \o "(" \o joined \o ") - Convert to JOIN */"
    ELSE IF func_name \in ConditionalAggregates
    THEN "/* TODO: " \o func_name \o "(" \o joined \o ") - Convert to WHERE clause */"
    ELSE IF func_name = "LEN"
    THEN (IF Len(args) > 0 THEN "LENGTH(" \o args[1] \o ")" ELSE "LENGTH(NULL)")
    ELSE IF func_name \in {"CONCAT", "CONCATENATE"} THEN "CONCAT(" \o joined \o ")"
    ELSE IF func_name \in {"TRIM", "UPPER", "LOWER"}
    THEN (IF Len(args) > 0 THEN func_name \o "(" \o args[1] \o ")"
          ELSE func_name \o "(NULL)")
    ELSE "/* " \o func_name \o "(" \o joined \o ") */"

RECURSIVE ConvertNode(_, _, _, _)
RECURSIVE ConvertArgs(_, _, _, _, _, _)

\* [self._convert_node(arg) for arg in node.args]
ConvertArgs(args, i, done, cm, sm, cs) ==
    IF i > Len(args) THEN [exc |-> "", s |-> done]
    ELSE LET r == ConvertNode(args[i], cm, sm, cs)
         IN  IF Raised(r) THEN r
             ELSE ConvertArgs(args, i + 1, Append(done, r.s), cm, sm, cs)

ConvertBinaryOp(node, cm, sm, cs) ==
    LET left == ConvertNode(node.left, cm, sm, cs) IN
    IF Raised(left) THEN left
    ELSE LET right == ConvertNode(node.right, cm, sm, cs) IN
         IF Raised(right) THEN right
         ELSE LET sql_op == op_map(node.operator)
              IN  IF sql_op = "POWER"
                  THEN Ok("POWER(" \o left.s \o ", " \o right.s \o ")")
                  ELSE Ok("(" \o left.s \o " " \o sql_op \o " " \o right.s \o ")")

ConvertUnaryOp(node, cm, sm, cs) ==
    LET operand == ConvertNode(node.operand, cm, sm, cs) IN
    IF Raised(operand) THEN operand
    ELSE IF node.operator = "-" THEN Ok("(-" \o operand.s \o ")")
    ELSE operand

ConvertFunction(node, cm, sm, cs) ==
    LET func_name == Upper(node.name)
        args == ConvertArgs(node.args, 1, <<>>, cm, sm, cs)
    IN  IF Raised(args) THEN args ELSE Ok(FunctionSql(func_name, args.s))

ConvertNode(node, cm, sm, cs) ==
    CASE IsInstance(node, "Number") -> Ok(PyStr(node.value))
      [] IsInstance(node, "String") -> Ok("'" \o SubChars(node.value, 0, {"'"}, "''") \o "'")
      [] IsInstance(node, "CellRef") -> ConvertCellRef(node, cm, sm, cs)
      [] IsInstance(node, "RangeRef") -> ConvertRangeRef(node)
      [] IsInstance(node, "TableRef") -> ConvertTableRef(node)
      [] IsInstance(node, "BinaryOp") -> ConvertBinaryOp(node, cm, sm, cs)
      [] IsInstance(node, "UnaryOp") -> ConvertUnaryOp(node, cm, sm, cs)
      [] IsInstance(node, "Function") -> ConvertFunction(node, cm, sm, cs)
      [] OTHER -> Ok("NULL")

\* ExcelToSQLConverter(column_mappings, sheet_mappings).convert(ast, current_sheet)
Convert(ast, cm, sm, cs) == ConvertNode(ast, cm, sm, cs)

(***************************************************************************)
(* convert_excel_formula_to_sql                                            *)
(***************************************************************************)
\* f"{formula}"
Fmt(x) == IF IsNone(x) THEN "None" ELSE x.v

\* the except clause with the formula left out of the comment
ErrorCommentBare(f, msg) == "/* ERROR converting formula: " \o msg \o " */"

\* the except clause: f"/* ERROR converting formula: {formula} - {str(e)} */"
ErrorComment(f, msg) == "/* ERROR converting formula: " \o Fmt(f) \o " - " \o msg \o " */"

(***************************************************************************)
(* The driver, one statement at a time.  An exception raised by a          *)
(* statement is caught by the except clause, which returns the comment.    *)
(***************************************************************************)
\* tokenizer = ExcelTokenizer(formula); tokens = tokenizer.tokenize()
CallTokenize ==
    /\ pc = "tokenize"
    /\ IF IsNone(formula)
       THEN /\ raised' = NoLStrip
            /\ sql' = Str(ErrorComment(formula, NoLStrip))
            /\ pc' = "done"
            /\ UNCHANGED <<tokenizer_pos, tokens>>
       ELSE /\ tokens' = Tokenize(formula.v)
            /\ tokenizer_pos' = tokens'[Len(tokens')].position
            /\ pc' = "parse"
            /\ UNCHANGED <<sql, raised>>
    /\ UNCHANGED <<arguments, parsed>>

\* parser = ExcelParser(tokens); ast = parser.parse()
CallParse ==
    /\ pc = "parse"
    /\ parsed' = Parse(tokens)
    /\ pc' = "convert"
    /\ UNCHANGED <<arguments, tokenizer_pos, tokens, sql, raised>>

\* converter = ExcelToSQLConverter(column_mappings, sheet_mappings)
\* sql = converter.convert(ast, current_sheet); return sql
CallConvert ==
    /\ pc = "convert"
    /\ LET r == Convert(parsed.node, column_mappings, sheet_mappings, current_sheet)
       IN  IF Raised(r)
           THEN /\ raised' = r.exc
                /\ sql' = Str(ErrorComment(formula, r.exc))
           ELSE /\ sql' = Str(r.s)
                /\ UNCHANGED raised
    /\ pc' = "done"
    /\ UNCHANGED <<arguments, tokenizer_pos, tokens, parsed>>

Next == CallTokenize \/ CallParse \/ CallConvert

(***************************************************************************)
(* tokenize, one pass of its loop at a time                                *)
(***************************************************************************)
TokenizerIteration ==
    /\ pc = "scan"
    /\ tokenizer_pos < Len(Normalize(formula.v))
    /\ LET s == Iteration(Normalize(formula.v), tokenizer_pos, tokens)
       IN  /\ tokenizer_pos' = s.pos
           /\ tokens' = s.tokens
    /\ UNCHANGED <<arguments, pc, parsed, sql, raised>>

TokenizerReturn ==
    /\ pc = "scan"
    /\ tokenizer_pos >= Len(Normalize(formula.v))
    /\ tokens' = WithEOF(tokens, tokenizer_pos)
    /\ pc' = "parse"
    /\ UNCHANGED <<arguments, tokenizer_pos, parsed, sql, raised>>

NextTokenizer == TokenizerIteration \/ TokenizerReturn

(***************************************************************************)
(* Bounds, and the inputs drawn within them                                *)
(***************************************************************************)
\* lexemes in a formula
MaxLexemes == 4

\* characters in a formula given to the tokenizer alone
MaxChars == 4

\* characters in a formula spelling a cell or range reference
MaxRefChars == 5

\* lexemes in a well-formed expression
MaxExprLen == 6

\* tokens, before EOF, in a token sequence given to the parser
MaxTokens == 4

\* tokens, before EOF, in a sequence covering every token type
MaxPrimaryTokens == 3

\* opening parentheses in an input
MaxDepth == 2

\* the sequences over V of length at most n
RECURSIVE SeqsUpTo(_, _)
SeqsUpTo(V, n) ==
    IF n = 0 THEN {<<>>}
    ELSE LET S == SeqsUpTo(V, n - 1)
         IN  S \cup {Append(s, v) : s \in {x \in S : Len(x) = n - 1}, v \in V}

\* the lexemes of x that open a parenthesis
Openers(x) == Cardinality({i \in DOMAIN x : EndsWith(x[i], "(")})

\* the formulas of at most n lexemes of V with at most d opening parentheses
Formulas(V, n, d) ==
    {Join(x, "", 1) : x \in {y \in SeqsUpTo(V, n) : Openers(y) <= d}}

RECURSIVE Balanced(_, _, _)
Balanced(x, i, depth) ==
    IF i > Len(x) THEN depth = 0
    ELSE IF x[i] = "(" THEN Balanced(x, i + 1, depth + 1)
    ELSE IF x[i] = ")" THEN depth > 0 /\ Balanced(x, i + 1, depth - 1)
    ELSE Balanced(x, i + 1, depth)

Started(p) ==
    /\ pc = p
    /\ tokenizer_pos = 0
    /\ tokens = <<>>
    /\ parsed = None
    /\ sql = None
    /\ raised = ""

PlainMappings ==
    /\ column_mappings \in {EmptyDict, Dict("A" :> "col_a")}
    /\ sheet_mappings \in {EmptyDict, Dict("Sheet2" :> "other_table")}
    /\ current_sheet \in {Str("Sheet1"), Str("Sheet2")}

NoMappings ==
    /\ column_mappings = EmptyDict
    /\ sheet_mappings = EmptyDict
    /\ current_sheet = Str("Sheet1")

(***************************************************************************)
(* The driver on any formula and any mappings, None among them             *)
(***************************************************************************)
DriverLexemes == {"A1", "1", "+", "Sheet2!", "SUM(", ")"}

Init ==
    /\ formula \in {None} \cup {Str(f) : f \in Formulas(DriverLexemes, MaxLexemes, MaxDepth)}
    /\ column_mappings \in {None, EmptyDict, Dict("A" :> "col_a")}
    /\ sheet_mappings \in {None, Dict("Sheet2" :> "other_table")}
    /\ current_sheet = Str("Sheet1")
    /\ Started("tokenize")

Spec == Init /\ [][Next]_vars

\* C1: the driver always returns a string and propagates nothing: when a
\* stage raised, the string is exactly the comment
\* "/* ERROR converting formula: <formula> - <message> */", and a stage raised
\* exactly when the input made it raise; otherwise the string is what the
\* converter returned.
DriverReturnsStringOrErrorComment ==
    /\ pc \in {"tokenize", "parse", "convert", "done"}
    /\ pc # "done" => sql = None /\ raised = ""
    /\ pc = "done" =>
         /\ sql.t = "str"
         /\ IF IsNone(formula)
            THEN /\ raised = "'NoneType' object has no attribute 'lstrip'"
                 /\ sql.v = "/* ERROR converting formula: None - " \o raised \o " */"
            ELSE LET r == Convert(parsed.node, column_mappings, sheet_mappings,
                                  current_sheet)
                 IN  /\ raised = r.exc
                     /\ IF Raised(r)
                        THEN sql.v = "/* ERROR converting formula: " \o formula.v
                                     \o " - " \o raised \o " */"
                        ELSE sql.v = r.s

\* the driver returned the error comment for an exception of the converter
DriverCaughtConverterError ==
    /\ pc = "done"
    /\ ~IsNone(formula)
    /\ raised = "'NoneType' object has no attribute 'get'"
    /\ StartsWith(sql.v, "/* ERROR converting formula: ")

(***************************************************************************)
(* Arithmetic formulas                                                     *)
(***************************************************************************)
ArithmeticLexemes == {"1", "A1", "+", "-", "*", "/", "^", "&", "(", ")"}

ArithmeticFormulas ==
    {Join(x, "", 1) :
        x \in {y \in SeqsUpTo(ArithmeticLexemes, MaxLexemes) :
                  Balanced(y, 1, 0) /\ Openers(y) <= MaxDepth}}

InitArithmetic ==
    /\ formula \in {Str(f) : f \in ArithmeticFormulas}
    /\ column_mappings \in {EmptyDict, Dict("A" :> "col_a")}
    /\ sheet_mappings = EmptyDict
    /\ current_sheet = Str("Sheet1")
    /\ Started("tokenize")

SpecArithmetic == InitArithmetic /\ [][Next]_vars

ExprOperands == {"1", "A1"}

ExprBinaryOperators == {"+", "-", "*", "^", "&", "<="}

ExprSigns == {"-", "+"}

\* the well-formed expressions of exactly k lexemes
RECURSIVE Expressions(_)
Expressions(k) ==
    IF k <= 0 THEN {}
    ELSE (IF k = 1 THEN {<<o>> : o \in ExprOperands} ELSE {})
         \cup {<<s>> \o e : s \in ExprSigns, e \in Expressions(k - 1)}
         \cup {<<"(">> \o e \o <<")">> : e \in Expressions(k - 2)}
         \cup UNION {{l \o <<b>> \o r : l \in Expressions(i),
                                       b \in ExprBinaryOperators,
                                       r \in Expressions(k - 1 - i)} :
                     i \in 1..(k - 2)}

WellFormedFormulas ==
    UNION {{Join(e, "", 1) : e \in Expressions(k)} : k \in 1..MaxExprLen}

\* the examples of the specification
PrecedenceExamples ==
    {[formula |-> "A1+B1*C1", sql |-> "(a + (b * c))"],
     [formula |-> "(A1+B1)*C1", sql |-> "((a + b) * c)"],
     [formula |-> "A1+1>B1*2", sql |-> "((a + 1.0) > (b * 2.0))"],
     [formula |-> "2^3^2", sql |-> "POWER(2.0, POWER(3.0, 2.0))"]}

InitPrecedence ==
    /\ formula \in {Str(f) : f \in WellFormedFormulas
                                   \cup {e.formula : e \in PrecedenceExamples}}
    /\ NoMappings
    /\ Started("tokenize")

SpecPrecedence == InitPrecedence /\ [][Next]_vars

OperandTypes == {"NUMBER", "CELL_REF"}

\* toks[1..n] is an expression of the grammar
\*   E ::= U (op U)*,  U ::= sign* P,  P ::= operand | ( E )
RECURSIVE WellFormedFrom(_, _, _, _, _)
WellFormedFrom(toks, i, n, operand_next, depth) ==
    IF i > n THEN ~operand_next /\ depth = 0
    ELSE IF operand_next
    THEN IF toks[i].type \in OperandTypes
         THEN WellFormedFrom(toks, i + 1, n, FALSE, depth)
         ELSE IF toks[i].type = "OPERATOR" /\ toks[i].value \in {"+", "-"}
         THEN WellFormedFrom(toks, i + 1, n, TRUE, depth)
         ELSE IF toks[i].type = "LPAREN"
         THEN WellFormedFrom(toks, i + 1, n, TRUE, depth + 1)
         ELSE FALSE
    ELSE IF toks[i].type = "OPERATOR"
         THEN WellFormedFrom(toks, i + 1, n, TRUE, depth)
         ELSE IF toks[i].type = "RPAREN" /\ depth > 0
         THEN WellFormedFrom(toks, i + 1, n, FALSE, depth - 1)
         ELSE FALSE

WellFormed(toks) == WellFormedFrom(toks, 1, Len(toks) - 1, TRUE, 0)

\* the binding strength of a binary operator, loosest first
Level(op) ==
    CASE op \in {"=", "<>", "<", ">", "<=", ">="} -> 1
      [] op = "&" -> 2
      [] op \in {"+", "-"} -> 3
      [] op \in {"*", "/"} -> 4
      [] op = "^" -> 5

\* the parentheses open at toks[k], counted from toks[i]
OpenAt(toks, i, k) ==
    Cardinality({m \in i..(k - 1) : toks[m].type = "LPAREN"})
    - Cardinality({m \in i..(k - 1) : toks[m].type = "RPAREN"})

\* toks[k] is a binary operator of toks[i..j] outside every parenthesis
BinaryAt(toks, i, k) ==
    /\ toks[k].type = "OPERATOR"
    /\ k > i
    /\ toks[k - 1].type \in OperandTypes \cup {"RPAREN"}
    /\ OpenAt(toks, i, k) = 0

\* the tree the grammar gives toks[i..j]: split at the loosest binary
\* operator outside parentheses, the last one of its level (the first for ^);
\* without one, a sign applies to the rest, and parentheses to their inside
RECURSIVE Reference(_, _, _)
Reference(toks, i, j) ==
    LET cands == {k \in i..j : BinaryAt(toks, i, k)} IN
    IF cands # {}
    THEN LET lo == CHOOSE v \in 1..5 :
                     /\ \E k \in cands : Level(toks[k].value) = v
                     /\ \A k \in cands : Level(toks[k].value) >= v
             at == {k \in cands : Level(toks[k].value) = lo}
             k == IF lo = 5
                  THEN CHOOSE x \in at : \A y \in at : x <= y
                  ELSE CHOOSE x \in at : \A y \in at : x >= y
         IN  BinaryOpNode(toks[k].value, Reference(toks, i, k - 1),
                          Reference(toks, k + 1, j))
    ELSE IF toks[i].type = "OPERATOR"
    THEN UnaryOpNode(toks[i].value, Reference(toks, i + 1, j))
    ELSE IF toks[i].type = "LPAREN"
    THEN Reference(toks, i + 1, j - 1)
    ELSE IF toks[i].type = "NUMBER"
    THEN NumberNode(toks[i].value)
    ELSE CellRefNode(toks[i].value, None)

\* C3: on a well-formed token sequence parse builds the tree of the grammar
\* with precedence comparison < & < + - < * / < ^ < sign, every binary level
\* grouping to the left except ^, which groups to the right; and the
\* examples of the specification translate as it says.
ParseFollowsPrecedence ==
    /\ pc \in {"convert", "done"} /\ WellFormed(tokens) =>
         parsed.node = Reference(tokens, 1, Len(tokens) - 1)
    /\ pc = "done" =>
         \A e \in PrecedenceExamples : formula = Str(e.formula) => sql = Str(e.sql)

\* a chain of powers after a sign was parsed and translated
PowerChainParsed ==
    /\ pc = "done"
    /\ formula = Str("-1^1^1")
    /\ WellFormed(tokens)
    /\ sql = Str("POWER((-1.0), POWER(1.0, 1.0))")

(***************************************************************************)
(* Sheet qualification of cell references                                  *)
(***************************************************************************)
SheetLexemes == {"Sheet1!", "Sheet2!", "''!", "A2", "$B$2", "+"}

SheetExamples == {"Sheet2!A2+Sheet2!B2"}

InitSheet ==
    /\ formula \in {Str(f) : f \in Formulas(SheetLexemes, MaxLexemes, MaxDepth)
                                   \cup SheetExamples}
    /\ PlainMappings
    /\ Started("tokenize")

SpecSheet == InitSheet /\ [][Next]_vars

\* the CellRef nodes of a tree
RECURSIVE CellRefs(_)
RECURSIVE CellRefsOfArgs(_, _)
CellRefsOfArgs(args, i) ==
    IF i > Len(args) THEN {} ELSE CellRefs(args[i]) \cup CellRefsOfArgs(args, i + 1)

CellRefs(node) ==
    CASE node.node = "CellRef" -> {node}
      [] node.node = "BinaryOp" -> CellRefs(node.left) \cup CellRefs(node.right)
      [] node.node = "UnaryOp" -> CellRefs(node.operand)
      [] node.node = "Function" -> CellRefsOfArgs(node.args, 1)
      [] OTHER -> {}

\* the column letters of a cell reference
ColumnLetters(cell) == SubChars(cell, 0, Digits \cup {"$"}, "")

\* <column>: column_mappings[letters], or the lowercased letters
ColumnOf(cell) ==
    IF ColumnLetters(cell) \in DOMAIN column_mappings.v
    THEN column_mappings.v[ColumnLetters(cell)]
    ELSE Lower(ColumnLetters(cell))

\* <table>: sheet_mappings[sheet], or the lowercased sheet name
TableOf(sheet) ==
    IF sheet \in DOMAIN sheet_mappings.v THEN sheet_mappings.v[sheet] ELSE Lower(sheet)

\* what the converter emits for the cell reference n
Emitted(n) == ConvertNode(n, column_mappings, sheet_mappings, current_sheet)

SheetExampleHolds ==
    /\ formula = Str("Sheet2!A2+Sheet2!B2")
    /\ column_mappings = EmptyDict
    /\ sheet_mappings = Dict("Sheet2" :> "other_table")
    => sql = Str(IF current_sheet = Str("Sheet1")
                 THEN "(other_table.a + other_table.b)"
                 ELSE "(a + b)")

\* C4, as stated: a cell reference that carries a sheet (its sheet field is
\* set) is emitted as <table>.<column> exactly when that sheet differs from
\* current_sheet, and as the bare column otherwise.
QualifiedWhenSheetDiffers ==
    pc = "done" =>
      /\ \A n \in CellRefs(parsed.node) :
           Emitted(n) = Ok(IF ~IsNone(n.sheet) /\ n.sheet # current_sheet
                           THEN TableOf(n.sheet.v) \o "." \o ColumnOf(n.cell)
                           ELSE ColumnOf(n.cell))
      /\ SheetExampleHolds

\* C4, amended: a cell reference that carries a non-empty sheet name is
\* emitted as <table>.<column> exactly when that sheet differs from
\* current_sheet; with no sheet, with the empty sheet name or with the
\* current sheet it is emitted as the bare column.
QualifiedWhenNamedSheetDiffers ==
    pc = "done" =>
      /\ \A n \in CellRefs(parsed.node) :
           Emitted(n) = Ok(IF ~IsNone(n.sheet) /\ n.sheet.v # ""
                              /\ n.sheet # current_sheet
                           THEN TableOf(n.sheet.v) \o "." \o ColumnOf(n.cell)
                           ELSE ColumnOf(n.cell))
      /\ SheetExampleHolds

\* a reference to another sheet was qualified with the mapped table, and one
\* to the current sheet was not
SheetQualified ==
    /\ pc = "done"
    /\ formula = Str("Sheet2!A2+$B$2")
    /\ current_sheet = Str("Sheet1")
    /\ sql = Str("(other_table.col_a + b)")

(***************************************************************************)
(* Lookup and conditional-aggregate functions                              *)
(***************************************************************************)
LookupNames == {"INDEX", "MATCH", "VLOOKUP", "HLOOKUP", "XLOOKUP", "COUNTIFS",
                "SUMIFS", "AVERAGEIFS", "COUNTIF", "SUMIF"}

ArgumentLexemes == {"A1", ",", ")", "A1:B2", "SUM("}

InitLookup ==
    /\ \E name \in LookupNames \cup {"sumifs", "Index"} :
         \E rest \in Formulas(ArgumentLexemes, MaxLexemes, MaxDepth - 1) :
            formula = Str(name \o "(" \o rest)
    /\ NoMappings
    /\ Started("tokenize")

SpecLookup == InitLookup /\ [][Next]_vars

\* the Function nodes of a tree
RECURSIVE FunctionNodes(_)
RECURSIVE FunctionNodesOfArgs(_, _)
FunctionNodesOfArgs(args, i) ==
    IF i > Len(args) THEN {}
    ELSE FunctionNodes(args[i]) \cup FunctionNodesOfArgs(args, i + 1)

FunctionNodes(node) ==
    CASE node.node = "Function" -> {node} \cup FunctionNodesOfArgs(node.args, 1)
      [] node.node = "BinaryOp" -> FunctionNodes(node.left) \cup FunctionNodes(node.right)
      [] node.node = "UnaryOp" -> FunctionNodes(node.operand)
      [] OTHER -> {}

IsTodoComment(out, name) ==
    /\ StartsWith(out, "/*")
    /\ EndsWith(out, "*/")
    /\ Contains(out, "TODO")
    /\ Contains(out, name)
    /\ ~StartsWith(out, name \o "(")

\* C5: for every Function node named (in any letter case) INDEX, MATCH,
\* VLOOKUP, HLOOKUP, XLOOKUP, COUNTIFS, SUMIFS, AVERAGEIFS, COUNTIF or SUMIF,
\* whatever its arguments, the converter's output for the node starts with
\* "/*", ends with "*/", holds "TODO" and the function name, and is no bare
\* call NAME(...).
LookupsBecomeTodoComments ==
    pc = "done" =>
      /\ raised = ""
      /\ \A n \in FunctionNodes(parsed.node) :
           Upper(n.name) \in LookupNames =>
             IsTodoComment(Emitted(n).s, Upper(n.name))
      /\ parsed.node.node = "Function" /\ Upper(parsed.node.name) \in LookupNames =>
           IsTodoComment(sql.v, Upper(parsed.node.name))

\* a conditional aggregate written in lower case, with two arguments, was
\* turned into its comment
LookupCommented ==
    /\ pc = "done"
    /\ formula = Str("sumifs(A1,SUM()")
    /\ sql = Str("/* TODO: SUMIFS(a, SUM()) - Convert to WHERE clause */")

(***************************************************************************)
(* The tokenizer alone, on any string                                      *)
(***************************************************************************)
TokenizerAlphabet == {"A", "1", "'", "!", "\"", " ", "[", "="}

InitTokenizer ==
    /\ formula \in {Str(Join(x, "", 1)) : x \in SeqsUpTo(TokenizerAlphabet, MaxChars)}
    /\ NoMappings
    /\ Started("scan")

SpecTokenizer == InitTokenizer /\ [][NextTokenizer]_vars

\* C6: tokenize ends: every pass of its loop moves the position forward by at
\* least one character, a matcher that returns no token leaves the position
\* where it found it, and the list returned holds exactly one EOF token, the
\* last, at the length of the normalized formula, after tokens whose
\* positions strictly increase.
TokenizerAdvancesAndEndsWithEOF ==
    LET f == Normalize(formula.v) IN
    /\ tokenizer_pos <= Len(f)
    /\ pc = "scan" /\ tokenizer_pos < Len(f) =>
         Iteration(f, tokenizer_pos, tokens).pos > tokenizer_pos
    /\ \A p \in 0..(Len(f) - 1) : \A k \in DOMAIN MatcherOrder :
         LET r == Matcher(MatcherOrder[k], f, p) IN ~IsTok(r) => r.pos = p
    /\ \A i \in DOMAIN tokens : \A j \in DOMAIN tokens :
         i < j => tokens[i].position < tokens[j].position
    /\ pc = "scan" => \A i \in DOMAIN tokens : tokens[i].type # "EOF"
    /\ pc = "parse" =>
         /\ Len(tokens) >= 1
         /\ tokens[Len(tokens)] = Tok("EOF", None, Len(f))
         /\ \A i \in 1..(Len(tokens) - 1) : tokens[i].type # "EOF"
         /\ tokens = Tokenize(formula.v)

\* the tokenizer returned after the quoted form of a sheet reference failed
\* past its closing quote and a character was skipped
TokenizerSkippedQuotedName ==
    /\ pc = "parse"
    /\ formula = Str("'A'1")
    /\ tokens = <<Tok("NUMBER", Float(1, 0), 3), Tok("EOF", None, 4)>>

(***************************************************************************)
(* Cell and range references in lower case                                 *)
(***************************************************************************)
ReferenceAlphabet == {"a", "A", "1", "$", ":"}

InitCase ==
    /\ formula \in {Str(Join(x, "", 1)) : x \in SeqsUpTo(ReferenceAlphabet, MaxRefChars)}
    /\ NoMappings
    /\ Started("tokenize")

NextCase == CallTokenize

SpecCase == InitCase /\ [][NextCase]_vars

\* C7: an input that differs from an uppercase cell reference, or range of
\* two cell references, only in letter case is tokenized to one CELL_REF
\* (RANGE_REF) token whose value is the uppercase form.
ReferencesAnyCase ==
    pc = "parse" =>
      LET u == Upper(formula.v) IN
      /\ Len(u) > 0 /\ CellEnd(u, 0) = Len(u) =>
           tokens = <<Tok("CELL_REF", u, 0), Tok("EOF", None, Len(u))>>
      /\ Len(u) > 0 /\ RangeEnd(u, 0) = Len(u) =>
           tokens = <<Tok("RANGE_REF", u, 0), Tok("EOF", None, Len(u))>>

(***************************************************************************)
(* The parser alone, on any token sequence that ends with EOF              *)
(***************************************************************************)
Kind(type, value) == [type |-> type, value |-> value]

\* the tokens of the kinds x, in order, and EOF
MakeTokens(x) ==
    [i \in 1..(Len(x) + 1) |->
        IF i <= Len(x) THEN Tok(x[i].type, x[i].value, i - 1)
        ELSE Tok("EOF", None, Len(x))]

TokenSequences(kinds, n, d) ==
    {MakeTokens(x) :
        x \in {y \in SeqsUpTo(kinds, n) :
                  Cardinality({i \in DOMAIN y : y[i].type = "LPAREN"}) <= d}}

ParserKinds ==
    {Kind("NUMBER", Float(1, 0)), Kind("CELL_REF", "A1"), Kind("FUNCTION", "SUM"),
     Kind("LPAREN", "("), Kind("RPAREN", ")"), Kind("COMMA", ","),
     Kind("OPERATOR", "+"), Kind("PERCENT", "%")}

InitParser ==
    /\ formula = None
    /\ NoMappings
    /\ pc = "parse"
    /\ tokenizer_pos = 0
    /\ tokens \in TokenSequences(ParserKinds, MaxTokens, MaxDepth)
    /\ parsed = None
    /\ sql = None
    /\ raised = ""

NextParser == CallParse

SpecParser == InitParser /\ [][NextParser]_vars

NodeKinds == {"Number", "String", "CellRef", "RangeRef", "TableRef", "Function",
              "BinaryOp", "UnaryOp"}

CommentLexemes == {"SUMIFS(", "FOO(", "A1:B2", "A1", ",", ")"}

InitComment ==
    /\ formula \in {Str(f) : f \in Formulas(CommentLexemes, MaxLexemes, MaxDepth)}
    /\ NoMappings
    /\ Started("tokenize")

SpecComment == InitComment /\ [][Next]_vars

\* where a comment opens, and where one closes
Openings(s) == {i \in 0..Len(s) : OccursAt(s, "/*", i)}

Closings(s) == {i \in 0..Len(s) : OccursAt(s, "*/", i)}

\* the delimiters of s pair up flat: the delimiter after an opening is its
\* closing, and the delimiter before a closing is its opening
FlatComments(s) ==
    LET marks == Openings(s) \cup Closings(s) IN
    /\ \A o \in Openings(s) :
         \E c \in Closings(s) :
            c >= o + 2 /\ \A m \in marks : ~(o < m /\ m < c)
    /\ \A c \in Closings(s) :
         \E o \in Openings(s) :
            o + 2 <= c /\ \A m \in marks : ~(o < m /\ m < c)

\* C9: in the string convert returns the comment delimiters pair up flat:
\* each "/*" is closed by the next "*/", with no "/*" or "*/" in between,
\* also when a range or an unsupported call is an argument of an unsupported
\* call.
CommentsAreFlat ==
    pc = "done" /\ raised = "" => FlatComments(sql.v)

(***************************************************************************)
(* _parse_primary on every type of token                                   *)
(***************************************************************************)
PrimaryKinds ==
    ParserKinds \cup
    {Kind("STRING", "x"), Kind("RANGE_REF", "A1:B2"), Kind("SHEET_REF", "Sheet2"),
     Kind("TABLE_REF", [table |-> "T", column |-> "[c]", full |-> "T[c]"])}

InitPrimary ==
    /\ formula = None
    /\ NoMappings
    /\ pc = "parse"
    /\ tokenizer_pos = 0
    /\ tokens \in TokenSequences(PrimaryKinds, MaxPrimaryTokens, MaxDepth)
    /\ parsed = None
    /\ sql = None
    /\ raised = ""

SpecPrimary == InitPrimary /\ [][NextParser]_vars

\* the tokens that begin no primary
NonPrimaryTypes == {"OPERATOR", "RPAREN", "COMMA", "PERCENT", "EOF"}

\* C10: _parse_primary puts the zero Number node only in the place of an
\* OPERATOR, RPAREN, COMMA, PERCENT or EOF token, consuming that one token;
\* and a SHEET_REF token that no cell or range reference follows leaves the
\* tokens after it parsed as they are without it.
ZeroOnlyForNonPrimary ==
    pc = "convert" =>
      /\ \A i \in DOMAIN parsed.log :
           parsed.log[i].fn = "zero" =>
             /\ parsed.log[i].type \in NonPrimaryTypes
             /\ parsed.log[i].to = parsed.log[i].from + 1
      /\ tokens[1].type = "SHEET_REF" /\ tokens[2].type \notin {"CELL_REF", "RANGE_REF"}
           => parsed.node = Parse(Tail(tokens)).node

(***************************************************************************)
(* Tokens left after the first expression                                  *)
(***************************************************************************)
TrailingLexemes == {"1", "A1", " ", "+", "(", ")", ",", "SUM("}

TrailingExamples == {"1 2", "A1)+B1", "A1,B1"}

InitTrailing ==
    /\ formula \in {Str(f) : f \in Formulas(TrailingLexemes, MaxLexemes, MaxDepth)
                                     \cup TrailingExamples}
    /\ column_mappings \in {EmptyDict, Dict("A" :> "col_a")}
    /\ sheet_mappings = EmptyDict
    /\ current_sheet = Str("Sheet1")
    /\ Started("tokenize")

SpecTrailing == InitTrailing /\ [][Next]_vars

\* parse returned with a token other than EOF under self.pos
TokensLeft == pc \in {"convert", "done"} /\ parsed.pos < Len(tokens) - 1

\* the text of the formula before the first token parse left
ConsumedPrefix == Slice(Normalize(formula.v), 0, tokens[parsed.pos + 1].position)

\* what the driver returns for a formula and the mappings of this run
Translation(f) ==
    LET r == Convert(Parse(Tokenize(f)).node, column_mappings, sheet_mappings,
                     current_sheet)
    IN  IF Raised(r) THEN Str(ErrorComment(Str(f), r.exc)) ELSE Str(r.s)

\* C11: parse does not need the tokens used up: when it returns with tokens
\* other than EOF left, its tree is the tree of the consumed prefix alone (of
\* which parse leaves nothing), nothing raises, and the driver returns the
\* translation of that prefix, with no error and no comment marker in it;
\* `1 2` gives 1.0, `A1)+B1` and `A1,B1` give the column of A1.
TrailingTokensDropped ==
    /\ TokensLeft =>
         /\ parsed.pos >= 1
         /\ parsed.node = Parse(Tokenize(ConsumedPrefix)).node
         /\ Parse(Tokenize(ConsumedPrefix)).pos >= Len(Tokenize(ConsumedPrefix)) - 1
         /\ raised = ""
    /\ TokensLeft /\ pc = "done" =>
         /\ sql = Translation(ConsumedPrefix)
         /\ ~Contains(sql.v, "/*")
    /\ pc = "done" /\ formula = Str("1 2") => TokensLeft /\ sql = Str("1.0")
    /\ pc = "done" /\ formula \in {Str("A1)+B1"), Str("A1,B1")} =>
         /\ TokensLeft
         /\ parsed.pos = 1
         /\ sql = Str(DictGet(column_mappings, "A", "a"))

\* the operand before an unmatched closing parenthesis was translated alone
UnmatchedParenDropped ==
    /\ pc = "done"
    /\ formula = Str("A1)+B1")
    /\ column_mappings = EmptyDict
    /\ TokensLeft
    /\ Len(tokens) = 5
    /\ sql = Str("a")
====
